---- MODULE Spec2Model ----
\* Child-list management of PIXI.Container (src/core/display/Container.js):
\* addChild, addChildAt, swapChildren, getChildIndex, setChildIndex,
\* getChildAt, removeChild, removeChildAt, removeChildren.
\*
\* children and parent are the scene graph. pre, call, err, ret and log record
\* the last call (tree before it, arguments, thrown or not, returned value,
\* hook calls and notifications in firing order); Return drops the record when
\* control is back in the caller. A value of one variable has the same shape in
\* every state (ret is always a [type, val] record), so that states compare.
\*
\* JavaScript arrays are 0-based; the model keeps every index 0-based and
\* converts at the point where a TLA+ sequence is read (seq[i + 1]).
\* An optional JavaScript number is a sequence: << >> is undefined, <<i>> is i.
EXTENDS Integers, Sequences, FiniteSets, TLC

VARIABLES children, parent, pre, call, err, ret, log,
          visible, updatePostOrder, updateOrder,
          renderable, alpha, worldAlpha, mask, filters,
          displayOrder, displayCounter, events,
          geometry, boundsCache, retBounds,
          destroyed

\* The fields the transform pass reads and writes: visible and updatePostOrder
\* of every display object, and the counter behind utils.incUpdateOrder.
xformVars == <<visible, updatePostOrder, updateOrder>>
\* The fields the render pass reads (renderable, alpha, worldAlpha, _mask and
\* _filters of every display object) and writes (displayOrder), the counter
\* behind utils.incDisplayOrder, and the calls the pass in progress has made
\* on the renderer, in order.
flagVars == <<renderable, alpha, worldAlpha, mask, filters>>
renderVars == <<flagVars, displayOrder, displayCounter, events>>
\* The fields the bounds queries read and write: the geometry of every display
\* object, its two bounds caches with the rectangles they refer to, and the
\* rectangle the last query returned.
boundsVars == <<geometry, boundsCache, retBounds>>
\* The display objects whose destroy() has run; a container among them has
\* children === null.
lifeVars == <<destroyed>>
frameVars == <<xformVars, renderVars, boundsVars, lifeVars>>

vars == <<children, parent, pre, call, err, ret, log, frameVars>>

\* ---------------------------------------------------------------- bounds
\* The display objects of the model. The last two are Containers (enough for
\* reparenting between containers, adding a container to itself and adding an
\* ancestor to its descendant); the others are display objects without children.
NumNodes == 4

\* ---------------------------------------------------------------- values
null == 0

Nodes == 1..NumNodes
Containers == {NumNodes - 1, NumNodes}

\* The display objects a frame works on: the two containers and one more.
SceneNodes == {1} \cup Containers

undefined == << >>
Num(i) == <<i>>
\* Index arguments: from one below the first index to one above the longest list.
IndexArgs == (0 - 1)..(NumNodes + 1)
OptIndexArgs == {undefined} \cup {Num(i) : i \in IndexArgs}

\* ---------------------------------------------------------------- arrays
indexOf(arr, x) ==
    IF \E i \in 1..Len(arr) : arr[i] = x
    THEN (CHOOSE i \in 1..Len(arr) : arr[i] = x /\ \A j \in 1..(i - 1) : arr[j] # x) - 1
    ELSE 0 - 1

Min(a, b) == IF a < b THEN a ELSE b
Max(a, b) == IF a > b THEN a ELSE b

\* Array.prototype.splice(start, deleteCount, ...items): start is clamped to
\* [0, length] (a negative start counts from the end), deleteCount to
\* [0, length - start]. The result is the array afterwards and the removed slice.
splice(arr, start, deleteCount, items) ==
    LET len == Len(arr)
        s == IF start < 0 THEN Max(len + start, 0) ELSE Min(start, len)
        d == Min(Max(deleteCount, 0), len - s)
    IN [arr |-> SubSeq(arr, 1, s) \o items \o SubSeq(arr, s + d + 1, len),
        removed |-> SubSeq(arr, s + 1, s + d)]

\* utils.removeItems(arr, startIdx, removeCount): splices removeCount items
\* out of arr starting at startIdx, in place.
removeItems(arr, startIdx, removeCount) ==
    IF startIdx >= Len(arr) \/ removeCount = 0
    THEN arr
    ELSE splice(arr, startIdx, removeCount, << >>).arr

\* ---------------------------------------------------------------- events
\* The tree as the operations see it: t.children, t.parent and t.log, the
\* hook calls and notifications fired so far in the current call.
Tree(ch, pa, lg) == [children |-> ch, parent |-> pa, log |-> lg]

\* this.onChildrenChange(index) on container c; index is an optional number.
\* The hook and the listeners of a notification run synchronously and can
\* read the scene graph: every log entry carries the children and parent
\* fields as they are at the moment it fires.
onChildrenChange(t, c, index) ==
    [t EXCEPT !.log = Append(@, [ev |-> "change", c |-> c, n |-> null, index |-> index,
                                 children |-> t.children, parent |-> t.parent])]

\* child.emit(name, c)
emit(t, child, name, c) ==
    [t EXCEPT !.log = Append(@, [ev |-> name, c |-> c, n |-> child, index |-> undefined,
                                 children |-> t.children, parent |-> t.parent])]

\* A returned value: undefined, a display object, a number or an array of
\* display objects.
RetUndefined == [type |-> "undefined", val |-> << >>]
RetNode(n) == [type |-> "object", val |-> <<n>>]
RetNumber(i) == [type |-> "number", val |-> <<i>>]
RetArray(arr) == [type |-> "array", val |-> arr]

\* The outcome of a call: the tree afterwards, whether it threw, what it returned.
Ok(t, value) == [t |-> t, err |-> FALSE, ret |-> value]
Throw(t) == [t |-> t, err |-> TRUE, ret |-> RetUndefined]

\* ---------------------------------------------------------------- operations
\* removeChild that fills the hole with the last child instead of shifting.
removeChildOne_SwapRemove(t, c, child) ==
    LET index == indexOf(t.children[c], child)
        arr == t.children[c]
        last == Len(arr)
    IN IF index = 0 - 1
       THEN Ok(t, RetUndefined)
       ELSE LET moved == IF index + 1 = last
                         THEN SubSeq(arr, 1, last - 1)
                         ELSE SubSeq([arr EXCEPT ![index + 1] = arr[last]], 1, last - 1)
                t1 == [t EXCEPT !.parent[child] = null, !.children[c] = moved]
                t2 == onChildrenChange(t1, c, Num(index))
                t3 == emit(t2, child, "removed", c)
            IN Ok(t3, RetNode(child))

\* removeChild without the index === -1 early return.
removeChildOne_NoGuard(t, c, child) ==
    LET index == indexOf(t.children[c], child)
        t1 == [t EXCEPT !.parent[child] = null,
                        !.children[c] = IF index = 0 - 1 THEN @ ELSE removeItems(@, index, 1)]
        t2 == onChildrenChange(t1, c, Num(index))
        t3 == emit(t2, child, "removed", c)
    IN Ok(t3, RetNode(child))

\* removeChild with one argument (the else branch, lines 283-295)
removeChildOne(t, c, child) ==
    LET index == indexOf(t.children[c], child)
    IN IF index = 0 - 1
       THEN Ok(t, RetUndefined)
       ELSE LET t1 == [t EXCEPT !.parent[child] = null,
                                !.children[c] = removeItems(@, index, 1)]
                t2 == onChildrenChange(t1, c, Num(index))
                t3 == emit(t2, child, "removed", c)
            IN Ok(t3, RetNode(child))

RECURSIVE removeChildLoop(_, _, _, _)
removeChildLoop(t, c, args, i) ==
    IF i > Len(args)
    THEN t
    ELSE removeChildLoop(removeChildOne(t, c, args[i]).t, c, args, i + 1)

removeChild(t, c, args) ==
    IF Len(args) > 1
    THEN Ok(removeChildLoop(t, c, args, 1), RetNode(args[1]))
    ELSE removeChildOne(t, c, args[1])

\* addChild that appends to the new list before it detaches from the old one.
addChildOne_AttachFirst(t, c, child) ==
    LET t0 == [t EXCEPT !.children[c] = Append(@, child)]
        t1 == IF t.parent[child] # null
              THEN removeChildOne(t0, t.parent[child], child).t
              ELSE t0
        t2 == [t1 EXCEPT !.parent[child] = c]
        t3 == onChildrenChange(t2, c, Num(Len(t2.children[c]) - 1))
        t4 == emit(t3, child, "added", c)
    IN Ok(t4, RetNode(child))

\* addChild without the detach from the previous parent.
addChildOne_NoDetach(t, c, child) ==
    LET t1 == [t EXCEPT !.parent[child] = c,
                        !.children[c] = Append(@, child)]
        t2 == onChildrenChange(t1, c, Num(Len(t1.children[c]) - 1))
        t3 == emit(t2, child, "added", c)
    IN Ok(t3, RetNode(child))

\* addChild with one argument (the else branch, lines 132-143)
addChildOne(t, c, child) ==
    LET t0 == IF t.parent[child] # null
              THEN removeChildOne(t, t.parent[child], child).t
              ELSE t
        t1 == [t0 EXCEPT !.parent[child] = c,
                         !.children[c] = Append(@, child)]
        t2 == onChildrenChange(t1, c, Num(Len(t1.children[c]) - 1))
        t3 == emit(t2, child, "added", c)
    IN Ok(t3, RetNode(child))

RECURSIVE addChildLoop(_, _, _, _)
addChildLoop(t, c, args, i) ==
    IF i > Len(args)
    THEN t
    ELSE addChildLoop(addChildOne(t, c, args[i]).t, c, args, i + 1)

addChild(t, c, args) ==
    IF Len(args) > 1
    THEN Ok(addChildLoop(t, c, args, 1), RetNode(args[1]))
    ELSE addChildOne(t, c, args[1])

\* addChildAt that detaches the child from its parent before checking the index.
addChildAt_DetachFirst(t, c, child, index) ==
    LET t0 == IF t.parent[child] # null
              THEN removeChildOne(t, t.parent[child], child).t
              ELSE t
    IN IF index >= 0 /\ index <= Len(t0.children[c])
       THEN LET t1 == [t0 EXCEPT !.parent[child] = c,
                                 !.children[c] = splice(@, index, 0, <<child>>).arr]
                t2 == onChildrenChange(t1, c, Num(index))
                t3 == emit(t2, child, "added", c)
            IN Ok(t3, RetNode(child))
       ELSE Throw(t0)

\* addChildAt that rejects index = length (< for <=).
addChildAt_NoAppend(t, c, child, index) ==
    IF index >= 0 /\ index < Len(t.children[c])
    THEN LET t0 == IF t.parent[child] # null
                   THEN removeChildOne(t, t.parent[child], child).t
                   ELSE t
             t1 == [t0 EXCEPT !.parent[child] = c,
                              !.children[c] = splice(@, index, 0, <<child>>).arr]
             t2 == onChildrenChange(t1, c, Num(index))
             t3 == emit(t2, child, "added", c)
         IN Ok(t3, RetNode(child))
    ELSE Throw(t)

addChildAt(t, c, child, index) ==
    IF index >= 0 /\ index <= Len(t.children[c])
    THEN LET t0 == IF t.parent[child] # null
                   THEN removeChildOne(t, t.parent[child], child).t
                   ELSE t
             t1 == [t0 EXCEPT !.parent[child] = c,
                              !.children[c] = splice(@, index, 0, <<child>>).arr]
             t2 == onChildrenChange(t1, c, Num(index))
             t3 == emit(t2, child, "added", c)
         IN Ok(t3, RetNode(child))
    ELSE Throw(t)

getChildIndex(t, c, child) ==
    LET index == indexOf(t.children[c], child)
    IN IF index = 0 - 1 THEN Throw(t) ELSE Ok(t, RetNumber(index))

\* swapChildren that writes child2 into both positions.
swapChildren_Typo(t, c, child, child2) ==
    IF child = child2
    THEN Ok(t, RetUndefined)
    ELSE LET r1 == getChildIndex(t, c, child)
             r2 == getChildIndex(t, c, child2)
         IN IF r1.err \/ r2.err
            THEN Throw(t)
            ELSE LET index1 == r1.ret.val[1]
                     index2 == r2.ret.val[1]
                     t1 == [t EXCEPT !.children[c][index1 + 1] = child2]
                     t2 == [t1 EXCEPT !.children[c][index2 + 1] = child2]
                     t3 == onChildrenChange(t2, c,
                               Num(IF index1 < index2 THEN index1 ELSE index2))
                 IN Ok(t3, RetUndefined)

swapChildren(t, c, child, child2) ==
    IF child = child2
    THEN Ok(t, RetUndefined)
    ELSE LET r1 == getChildIndex(t, c, child)
             r2 == getChildIndex(t, c, child2)
         IN IF r1.err \/ r2.err
            THEN Throw(t)
            ELSE LET index1 == r1.ret.val[1]
                     index2 == r2.ret.val[1]
                 IN IF index1 < 0 \/ index2 < 0
                    THEN Throw(t)
                    ELSE LET t1 == [t EXCEPT !.children[c][index1 + 1] = child2]
                             t2 == [t1 EXCEPT !.children[c][index2 + 1] = child]
                             t3 == onChildrenChange(t2, c,
                                       Num(IF index1 < index2 THEN index1 ELSE index2))
                         IN Ok(t3, RetUndefined)

\* setChildIndex that exchanges the child with the occupant of the new index.
setChildIndex_Exchange(t, c, child, index) ==
    IF index < 0 \/ index >= Len(t.children[c])
    THEN Throw(t)
    ELSE LET r == getChildIndex(t, c, child)
         IN IF r.err
            THEN Throw(t)
            ELSE LET currentIndex == r.ret.val[1]
                     other == t.children[c][index + 1]
                     t1 == [t EXCEPT !.children[c][currentIndex + 1] = other]
                     t2 == [t1 EXCEPT !.children[c][index + 1] = child]
                     t3 == onChildrenChange(t2, c, Num(index))
                 IN Ok(t3, RetUndefined)

setChildIndex(t, c, child, index) ==
    IF index < 0 \/ index >= Len(t.children[c])
    THEN Throw(t)
    ELSE LET r == getChildIndex(t, c, child)
         IN IF r.err
            THEN Throw(t)
            ELSE LET currentIndex == r.ret.val[1]
                     a1 == removeItems(t.children[c], currentIndex, 1)
                     t1 == [t EXCEPT !.children[c] = splice(a1, index, 0, <<child>>).arr]
                     t2 == onChildrenChange(t1, c, Num(index))
                 IN Ok(t2, RetUndefined)

getChildAt(t, c, index) ==
    IF index < 0 \/ index >= Len(t.children[c])
    THEN Throw(t)
    ELSE Ok(t, RetNode(t.children[c][index + 1]))

removeChildAt(t, c, index) ==
    LET r == getChildAt(t, c, index)
    IN IF r.err
       THEN Throw(t)
       ELSE LET child == r.ret.val[1]
                t1 == [t EXCEPT !.parent[child] = null,
                                !.children[c] = removeItems(@, index, 1)]
                t2 == onChildrenChange(t1, c, Num(index))
                t3 == emit(t2, child, "removed", c)
            IN Ok(t3, RetNode(child))

\* removed[i].parent = null for every i (lines 338-341)
ClearParents(pa, removed) ==
    [n \in Nodes |-> IF \E i \in 1..Len(removed) : removed[i] = n THEN null ELSE pa[n]]

RECURSIVE emitRemovedLoop(_, _, _, _)
emitRemovedLoop(t, c, removed, i) ==
    IF i > Len(removed)
    THEN t
    ELSE emitRemovedLoop(emit(t, removed[i], "removed", c), c, removed, i + 1)

\* removeChildren that accepts a zero-length range on any list.
removeChildren_ZeroLegal(t, c, beginIndex, endIndex) ==
    LET begin == IF beginIndex = undefined \/ beginIndex = Num(0) THEN 0 ELSE beginIndex[1]
        end == IF endIndex # undefined THEN endIndex[1] ELSE Len(t.children[c])
        range == end - begin
    IN IF range > 0 /\ range <= end
       THEN LET sp == splice(t.children[c], begin, range, << >>)
                removed == sp.removed
                t1 == [t EXCEPT !.children[c] = sp.arr,
                                !.parent = ClearParents(@, removed)]
                t2 == onChildrenChange(t1, c, beginIndex)
                t3 == emitRemovedLoop(t2, c, removed, 1)
            IN Ok(t3, RetArray(removed))
       ELSE IF range = 0
            THEN Ok(t, RetArray(<< >>))
            ELSE Throw(t)

\* removeChildren that detaches and notifies child by child and calls the hook
\* at the end.
RECURSIVE detachNotifyLoop(_, _, _, _)
detachNotifyLoop(t, c, removed, i) ==
    IF i > Len(removed)
    THEN t
    ELSE detachNotifyLoop(emit([t EXCEPT !.parent[removed[i]] = null], removed[i], "removed", c),
                          c, removed, i + 1)

removeChildren_Interleaved(t, c, beginIndex, endIndex) ==
    LET begin == IF beginIndex = undefined \/ beginIndex = Num(0) THEN 0 ELSE beginIndex[1]
        end == IF endIndex # undefined THEN endIndex[1] ELSE Len(t.children[c])
        range == end - begin
    IN IF range > 0 /\ range <= end
       THEN LET sp == splice(t.children[c], begin, range, << >>)
                removed == sp.removed
                t1 == [t EXCEPT !.children[c] = sp.arr]
                t2 == detachNotifyLoop(t1, c, removed, 1)
                t3 == onChildrenChange(t2, c, beginIndex)
            IN Ok(t3, RetArray(removed))
       ELSE IF range = 0 /\ Len(t.children[c]) = 0
            THEN Ok(t, RetArray(<< >>))
            ELSE Throw(t)

removeChildren(t, c, beginIndex, endIndex) ==
    LET begin == IF beginIndex = undefined \/ beginIndex = Num(0) THEN 0 ELSE beginIndex[1]
        end == IF endIndex # undefined THEN endIndex[1] ELSE Len(t.children[c])
        range == end - begin
    IN IF range > 0 /\ range <= end
       THEN LET sp == splice(t.children[c], begin, range, << >>)
                removed == sp.removed
                t1 == [t EXCEPT !.children[c] = sp.arr,
                                !.parent = ClearParents(@, removed)]
                t2 == onChildrenChange(t1, c, beginIndex)
                t3 == emitRemovedLoop(t2, c, removed, 1)
            IN Ok(t3, RetArray(removed))
       ELSE IF range = 0 /\ Len(t.children[c]) = 0
            THEN Ok(t, RetArray(<< >>))
            ELSE Throw(t)

\* ---------------------------------------------------------------- state machine
Now == Tree(children, parent, << >>)

\* One call op on receiver c with the given arguments, with outcome r, made
\* when no other call is in progress (single-threaded, synchronous). The
\* variables pre, call, err, ret and log are the record of the call that has
\* just returned: the tree before it, its arguments, whether it threw, what
\* it returned and the hook calls and notifications it fired, in order.
Do(op, c, nodes, ints, r) ==
    /\ pre' = [children |-> children, parent |-> parent]
    /\ call' = [op |-> op, c |-> c, nodes |-> nodes, ints |-> ints]
    /\ children' = r.t.children
    /\ parent' = r.t.parent
    /\ log' = r.t.log
    /\ err' = r.err
    /\ ret' = r.ret
    /\ UNCHANGED frameVars

Idle == [op |-> "idle", c |-> null, nodes |-> << >>, ints |-> << >>]

NodeArgs == {<<a>> : a \in Nodes} \cup {<<a, b>> : a \in Nodes, b \in Nodes}

\* this._filters: null, or a list of which the pass reads the length only.
NoFilters == [isNull |-> TRUE, length |-> 0]
FilterList(len) == [isNull |-> FALSE, length |-> len]

\* A rectangle (math.Rectangle) and the EMPTY singleton's fields.
Rect(x, y, w, h) == [x |-> x, y |-> y, width |-> w, height |-> h]
EmptyRect == Rect(0, 0, 0, 0)

\* this.geometry: none (<< >>), or <<r>> with r its bounds.
NoGeometry == << >>

\* The two cache slots: _currentBounds with _bounds, read by getBounds, and
\* _currentComputedBounds with _computedBounds, read by getComputedBounds.
Slots == {"current", "computed"}

\* One cache slot of one display object of the scene. ref is what the slot refers to:
\* "null", "EMPTY" (math.Rectangle.EMPTY), "bounds" (this._bounds or
\* this._computedBounds) or "geom" (the rectangle geom.getBounds() returned);
\* own and geom are the fields of those two rectangles.
NewCache == [ref |-> "null", own |-> EmptyRect, geom |-> EmptyRect]

\* What a bounds query returns: a reference and the fields found behind it.
NoBounds == [ref |-> "null", rect |-> EmptyRect]

\* The display objects as constructed, nothing rendered yet.
InitNodes ==
    /\ children = [c \in Containers |-> << >>]
    /\ parent = [n \in Nodes |-> null]
    /\ pre = [children |-> children, parent |-> parent]
    /\ call = Idle
    /\ err = FALSE
    /\ ret = RetUndefined
    /\ log = << >>
    /\ visible = [n \in Nodes |-> TRUE]
    /\ updatePostOrder = [n \in Nodes |-> 0]
    /\ updateOrder = 0
    /\ displayOrder = [n \in Nodes |-> 0]
    /\ displayCounter = 0
    /\ events = << >>
    /\ renderable = [n \in Nodes |-> TRUE]
    /\ alpha = [n \in Nodes |-> 1]
    /\ worldAlpha = [n \in Nodes |-> 1]
    /\ mask = [n \in Nodes |-> FALSE]
    /\ filters = [n \in Nodes |-> NoFilters]
    /\ boundsCache = [slot \in Slots |-> [n \in SceneNodes |-> NewCache]]
    /\ retBounds = NoBounds
    /\ destroyed = {}

Init ==
    /\ InitNodes
    /\ geometry = [n \in Nodes |-> NoGeometry]

AddChild ==
    \E c \in Containers, args \in NodeArgs :
        /\ call.op = "idle"
        /\ Do("addChild", c, args, << >>, addChild(Now, c, args))

AddChildAt ==
    \E c \in Containers, child \in Nodes, index \in IndexArgs :
        /\ call.op = "idle"
        /\ Do("addChildAt", c, <<child>>, <<Num(index)>>, addChildAt(Now, c, child, index))

SwapChildren ==
    \E c \in Containers, child \in Nodes, child2 \in Nodes :
        /\ call.op = "idle"
        /\ Do("swapChildren", c, <<child, child2>>, << >>, swapChildren(Now, c, child, child2))

GetChildIndex ==
    \E c \in Containers, child \in Nodes :
        /\ call.op = "idle"
        /\ Do("getChildIndex", c, <<child>>, << >>, getChildIndex(Now, c, child))

SetChildIndex ==
    \E c \in Containers, child \in Nodes, index \in IndexArgs :
        /\ call.op = "idle"
        /\ Do("setChildIndex", c, <<child>>, <<Num(index)>>, setChildIndex(Now, c, child, index))

GetChildAt ==
    \E c \in Containers, index \in IndexArgs :
        /\ call.op = "idle"
        /\ Do("getChildAt", c, << >>, <<Num(index)>>, getChildAt(Now, c, index))

RemoveChild ==
    \E c \in Containers, args \in NodeArgs :
        /\ call.op = "idle"
        /\ Do("removeChild", c, args, << >>, removeChild(Now, c, args))

RemoveChildAt ==
    \E c \in Containers, index \in IndexArgs :
        /\ call.op = "idle"
        /\ Do("removeChildAt", c, << >>, <<Num(index)>>, removeChildAt(Now, c, index))

RemoveChildren ==
    \E c \in Containers, beginIndex \in OptIndexArgs, endIndex \in OptIndexArgs :
        /\ call.op = "idle"
        /\ Do("removeChildren", c, << >>, <<beginIndex, endIndex>>,
              removeChildren(Now, c, beginIndex, endIndex))

\* Control is back in the caller: the record of the finished call is dropped,
\* the tree stays as the call left it.
Return ==
    /\ call.op # "idle"
    /\ pre' = [children |-> children, parent |-> parent]
    /\ call' = Idle
    /\ err' = FALSE
    /\ ret' = RetUndefined
    /\ log' = << >>
    /\ events' = << >>
    /\ retBounds' = NoBounds
    /\ UNCHANGED <<children, parent, destroyed, xformVars, flagVars, displayOrder, displayCounter,
                   geometry, boundsCache>>

Next ==
    \/ AddChild
    \/ AddChildAt
    \/ SwapChildren
    \/ GetChildIndex
    \/ SetChildIndex
    \/ GetChildAt
    \/ RemoveChild
    \/ RemoveChildAt
    \/ RemoveChildren
    \/ Return

Spec == Init /\ [][Next]_vars

\* The parent chain of n, followed for k steps.
RECURSIVE Up(_, _)
Up(n, k) == IF k = 0 \/ n = null THEN n ELSE Up(parent[n], k - 1)

\* ---------------------------------------------------------------- transform pass
\* Every display object of the scene is a Container (Sprite, Graphics and Text
\* extend it); the ones that are never the receiver of a child-list call have
\* the empty child list of the constructor.
childrenOf(ch, n) == IF n \in Containers THEN ch[n] ELSE << >>

\* The counter of utils.incUpdateOrder is capped for the model.
MaxUpdateOrder == 4

\* utils.incUpdateOrder(): the next value of a process-wide counter.
incUpdateOrder(w) == [w EXCEPT !.updateOrder = @ + 1]

\* What the pass works on: the scene graph and the transform fields.
World == [children |-> children, parent |-> parent, visible |-> visible,
          updatePostOrder |-> updatePostOrder, updateOrder |-> updateOrder,
          boundsCache |-> boundsCache, err |-> FALSE]

\* this.displayObjectUpdateTransform(): of what it does, the model keeps that
\* the bounds computed before the pass are dropped.
displayObjectUpdateTransform(w, n) ==
    [w EXCEPT !.boundsCache = [slot \in Slots |-> [@[slot] EXCEPT ![n].ref = "null"]]]

\* updateTransform that stamps the node before it descends into the children.
RECURSIVE updateTransform_PreOrder(_, _, _), updateChildren_PreOrder(_, _, _, _)
updateTransform_PreOrder(w, n, stack) ==
    IF ~w.visible[n]
    THEN w
    ELSE IF n \in stack
         THEN [w EXCEPT !.err = TRUE]
         ELSE LET w1 == incUpdateOrder(displayObjectUpdateTransform(w, n))
                  w2 == [w1 EXCEPT !.updatePostOrder[n] = w1.updateOrder]
              IN updateChildren_PreOrder(w2, n, 1, stack \cup {n})

updateChildren_PreOrder(w, n, i, stack) ==
    IF w.err \/ i > Len(childrenOf(w.children, n))
    THEN w
    ELSE updateChildren_PreOrder(updateTransform_PreOrder(w, childrenOf(w.children, n)[i], stack),
                                 n, i + 1, stack)

\* Container.prototype.updateTransform on node n. stack holds the nodes whose
\* updateTransform is on the call stack: a node that is its own descendant
\* (C2) recurses without end and the call stack overflows; the error unwinds
\* every frame, so no node on the stack is stamped.
RECURSIVE updateTransform(_, _, _), updateChildren(_, _, _, _)
updateTransform(w, n, stack) ==
    IF ~w.visible[n]
    THEN w
    ELSE IF n \in stack
         THEN [w EXCEPT !.err = TRUE]
         ELSE LET w0 == displayObjectUpdateTransform(w, n)
                  w1 == updateChildren(w0, n, 1, stack \cup {n})
                  w2 == incUpdateOrder(w1)
              IN IF w1.err
                 THEN w1
                 ELSE [w2 EXCEPT !.updatePostOrder[n] = w2.updateOrder]

\* the loop of lines 376-379
updateChildren(w, n, i, stack) ==
    IF w.err \/ i > Len(childrenOf(w.children, n))
    THEN w
    ELSE updateChildren(updateTransform(w, childrenOf(w.children, n)[i], stack),
                        n, i + 1, stack)

\* c.addChild(child) and c.removeChild(child) while a scene is put together;
\* control is back in the caller at once and no record of the call is kept.
PlaceChild ==
    \E c \in Containers, child \in SceneNodes :
        /\ call.op = "idle"
        /\ children' = addChild(Now, c, <<child>>).t.children
        /\ parent' = addChild(Now, c, <<child>>).t.parent
        /\ pre' = [children |-> children', parent |-> parent']
        /\ UNCHANGED <<call, err, ret, log, frameVars>>

TakeChild ==
    \E c \in Containers, child \in SceneNodes :
        /\ call.op = "idle"
        /\ indexOf(children[c], child) # 0 - 1
        /\ children' = removeChild(Now, c, <<child>>).t.children
        /\ parent' = removeChild(Now, c, <<child>>).t.parent
        /\ pre' = [children |-> children', parent |-> parent']
        /\ UNCHANGED <<call, err, ret, log, frameVars>>

\* n.visible = b
SetVisible ==
    \E n \in SceneNodes, b \in BOOLEAN :
        /\ call.op = "idle"
        /\ visible' = [visible EXCEPT ![n] = b]
        /\ UNCHANGED <<children, parent, destroyed, pre, call, err, ret, log, updatePostOrder, updateOrder,
                       renderVars, boundsVars>>

\* root.updateTransform(): the frame loop starts one pass at a root, a display
\* object without parent.
UpdateTransform ==
    \E n \in SceneNodes :
        LET w == updateTransform(World, n, {})
        IN /\ call.op = "idle"
           /\ parent[n] = null
           /\ w.updateOrder <= MaxUpdateOrder
           /\ call' = [op |-> "updateTransform", c |-> n, nodes |-> << >>, ints |-> << >>]
           /\ err' = w.err
           /\ updatePostOrder' = w.updatePostOrder
           /\ updateOrder' = w.updateOrder
           /\ boundsCache' = w.boundsCache
           /\ UNCHANGED <<children, parent, destroyed, pre, ret, log, visible, renderVars,
                          geometry, retBounds>>

NextTransform ==
    \/ PlaceChild
    \/ TakeChild
    \/ SetVisible
    \/ UpdateTransform
    \/ Return

SpecTransform == Init /\ [][NextTransform]_vars

\* ---------------------------------------------------------------- render pass
\* The counter of utils.incDisplayOrder is capped for the model.
MaxDisplayOrder == 3
\* How many fields of the display objects of a scene are set away from their
\* defaults.
MaxSettings == 2

\* utils.incDisplayOrder(): the next value of a process-wide counter.
incDisplayOrder(r) == [r EXCEPT !.displayCounter = @ + 1]

\* What the pass works on: the scene graph, the flags, the stamps and the
\* renderer (the list of the calls made on it).
Stage == [children |-> children, visible |-> visible, renderable |-> renderable,
          alpha |-> alpha, worldAlpha |-> worldAlpha, mask |-> mask, filters |-> filters,
          displayOrder |-> displayOrder, displayCounter |-> displayCounter,
          events |-> events, err |-> FALSE]

\* One call on the renderer made by the visit of node n: flush and start of
\* the current object renderer, pushFilter/popFilter of the filter manager,
\* pushMask/popMask of the mask manager, and the node's own _renderWebGL or
\* _renderCanvas.
Emit(r, name, n) == [r EXCEPT !.events = Append(@, [ev |-> name, n |-> n])]
EmitIf(cond, r, name, n) == IF cond THEN Emit(r, name, n) ELSE r

\* renderWebGL that pops the filter before the mask.
RECURSIVE renderWebGL_PopFilterFirst(_, _, _), renderChildren_PopFilterFirst(_, _, _, _)
renderWebGL_PopFilterFirst(r, n, stack) ==
    IF ~r.visible[n]
    THEN [r EXCEPT !.displayOrder[n] = 0]
    ELSE IF n \in stack
         THEN [r EXCEPT !.err = TRUE]
         ELSE LET r0 == incDisplayOrder(r)
                  r1 == [r0 EXCEPT !.displayOrder[n] = r0.displayCounter]
              IN IF r1.worldAlpha[n] <= 0 \/ ~r1.renderable[n]
                 THEN r1
                 ELSE IF r1.mask[n] \/ ~r1.filters[n].isNull
                      THEN LET r2 == Emit(r1, "flush", n)
                               r3 == EmitIf(~r2.filters[n].isNull /\ r2.filters[n].length # 0,
                                            r2, "pushFilter", n)
                               r4 == EmitIf(r3.mask[n], r3, "pushMask", n)
                               r5 == Emit(r4, "start", n)
                               r6 == Emit(r5, "_renderWebGL", n)
                               r7 == renderChildren_PopFilterFirst(r6, n, 1, stack \cup {n})
                               r8 == Emit(r7, "flush", n)
                               r9 == EmitIf(~r8.filters[n].isNull, r8, "popFilter", n)
                               r10 == EmitIf(r9.mask[n], r9, "popMask", n)
                               r11 == Emit(r10, "start", n)
                           IN IF r7.err THEN r7 ELSE r11
                      ELSE renderChildren_PopFilterFirst(Emit(r1, "_renderWebGL", n), n, 1, stack \cup {n})

renderChildren_PopFilterFirst(r, n, i, stack) ==
    IF r.err \/ i > Len(childrenOf(r.children, n))
    THEN r
    ELSE renderChildren_PopFilterFirst(
             renderWebGL_PopFilterFirst(r, childrenOf(r.children, n)[i], stack), n, i + 1, stack)

\* renderWebGL that takes a value of the counter before it looks at visible.
RECURSIVE renderWebGL_StampFirst(_, _, _), renderChildren_StampFirst(_, _, _, _)
renderWebGL_StampFirst(r, n, stack) ==
    IF ~r.visible[n]
    THEN [incDisplayOrder(r) EXCEPT !.displayOrder[n] = 0]
    ELSE IF n \in stack
         THEN [r EXCEPT !.err = TRUE]
         ELSE LET r0 == incDisplayOrder(r)
                  r1 == [r0 EXCEPT !.displayOrder[n] = r0.displayCounter]
              IN IF r1.worldAlpha[n] <= 0 \/ ~r1.renderable[n]
                 THEN r1
                 ELSE IF r1.mask[n] \/ ~r1.filters[n].isNull
                      THEN LET r2 == Emit(r1, "flush", n)
                               r3 == EmitIf(~r2.filters[n].isNull /\ r2.filters[n].length # 0,
                                            r2, "pushFilter", n)
                               r4 == EmitIf(r3.mask[n], r3, "pushMask", n)
                               r5 == Emit(r4, "start", n)
                               r6 == Emit(r5, "_renderWebGL", n)
                               r7 == renderChildren_StampFirst(r6, n, 1, stack \cup {n})
                               r8 == Emit(r7, "flush", n)
                               r9 == EmitIf(r8.mask[n], r8, "popMask", n)
                               r10 == EmitIf(~r9.filters[n].isNull, r9, "popFilter", n)
                               r11 == Emit(r10, "start", n)
                           IN IF r7.err THEN r7 ELSE r11
                      ELSE renderChildren_StampFirst(Emit(r1, "_renderWebGL", n), n, 1, stack \cup {n})

renderChildren_StampFirst(r, n, i, stack) ==
    IF r.err \/ i > Len(childrenOf(r.children, n))
    THEN r
    ELSE renderChildren_StampFirst(
             renderWebGL_StampFirst(r, childrenOf(r.children, n)[i], stack), n, i + 1, stack)

\* Container.prototype.renderWebGL on node n; stack as in updateTransform.
RECURSIVE renderWebGL(_, _, _), renderWebGLChildren(_, _, _, _)
renderWebGL(r, n, stack) ==
    IF ~r.visible[n]
    THEN [r EXCEPT !.displayOrder[n] = 0]
    ELSE IF n \in stack
         THEN [r EXCEPT !.err = TRUE]
         ELSE LET r0 == incDisplayOrder(r)
                  r1 == [r0 EXCEPT !.displayOrder[n] = r0.displayCounter]
              IN IF r1.worldAlpha[n] <= 0 \/ ~r1.renderable[n]
                 THEN r1
                 ELSE IF r1.mask[n] \/ ~r1.filters[n].isNull
                      THEN LET r2 == Emit(r1, "flush", n)
                               r3 == EmitIf(~r2.filters[n].isNull /\ r2.filters[n].length # 0,
                                            r2, "pushFilter", n)
                               r4 == EmitIf(r3.mask[n], r3, "pushMask", n)
                               r5 == Emit(r4, "start", n)
                               r6 == Emit(r5, "_renderWebGL", n)
                               r7 == renderWebGLChildren(r6, n, 1, stack \cup {n})
                               r8 == Emit(r7, "flush", n)
                               r9 == EmitIf(r8.mask[n], r8, "popMask", n)
                               r10 == EmitIf(~r9.filters[n].isNull, r9, "popFilter", n)
                               r11 == Emit(r10, "start", n)
                           IN IF r7.err THEN r7 ELSE r11
                      ELSE renderWebGLChildren(Emit(r1, "_renderWebGL", n), n, 1, stack \cup {n})

\* the loops of lines 629-632 and 652-655
renderWebGLChildren(r, n, i, stack) ==
    IF r.err \/ i > Len(childrenOf(r.children, n))
    THEN r
    ELSE renderWebGLChildren(renderWebGL(r, childrenOf(r.children, n)[i], stack),
                             n, i + 1, stack)

\* Container.prototype.renderCanvas on node n
RECURSIVE renderCanvas(_, _, _), renderCanvasChildren(_, _, _, _)
renderCanvas(r, n, stack) ==
    IF ~r.visible[n] \/ r.alpha[n] <= 0 \/ ~r.renderable[n]
    THEN r
    ELSE IF n \in stack
         THEN [r EXCEPT !.err = TRUE]
         ELSE LET r1 == EmitIf(r.mask[n], r, "pushMask", n)
                  r2 == Emit(r1, "_renderCanvas", n)
                  r3 == renderCanvasChildren(r2, n, 1, stack \cup {n})
                  r4 == EmitIf(r3.mask[n], r3, "popMask", n)
              IN IF r3.err THEN r3 ELSE r4

\* the loop of lines 703-706
renderCanvasChildren(r, n, i, stack) ==
    IF r.err \/ i > Len(childrenOf(r.children, n))
    THEN r
    ELSE renderCanvasChildren(renderCanvas(r, childrenOf(r.children, n)[i], stack),
                              n, i + 1, stack)

\* The assignments an application makes to configure a display object.
Settings == {"visible", "renderable", "alpha", "worldAlpha", "mask", "noFilter", "filter"}

\* How many fields of display object n are away from their defaults.
SetOn(n) ==
    (IF visible[n] THEN 0 ELSE 1) + (IF renderable[n] THEN 0 ELSE 1)
    + (IF alpha[n] = 1 THEN 0 ELSE 1) + (IF worldAlpha[n] = 1 THEN 0 ELSE 1)
    + (IF mask[n] THEN 1 ELSE 0) + (IF filters[n].isNull THEN 0 ELSE 1)
RECURSIVE SetUpTo(_)
SetUpTo(n) == IF n = 0 THEN 0 ELSE SetOn(n) + SetUpTo(n - 1)

\* One of n.visible = false, n.renderable = false, n.alpha = 0, n.mask = <a
\* mask>, n.filters = [] and n.filters = [<a filter>], on a field that still
\* has its default; worldAlpha = 0 is what a transform pass leaves on a node
\* whose composited alpha is 0.
Configure ==
    \E n \in SceneNodes, field \in Settings :
        /\ call.op = "idle"
        /\ SetUpTo(NumNodes) < MaxSettings
        /\ visible' = IF field = "visible" THEN [visible EXCEPT ![n] = FALSE] ELSE visible
        /\ renderable' = IF field = "renderable" THEN [renderable EXCEPT ![n] = FALSE]
                          ELSE renderable
        /\ alpha' = IF field = "alpha" THEN [alpha EXCEPT ![n] = 0] ELSE alpha
        /\ worldAlpha' = IF field = "worldAlpha" THEN [worldAlpha EXCEPT ![n] = 0]
                          ELSE worldAlpha
        /\ mask' = IF field = "mask" THEN [mask EXCEPT ![n] = TRUE] ELSE mask
        /\ filters' = IF field = "noFilter" /\ filters[n].isNull
                       THEN [filters EXCEPT ![n] = FilterList(0)]
                       ELSE IF field = "filter" /\ filters[n].isNull
                            THEN [filters EXCEPT ![n] = FilterList(1)]
                            ELSE filters
        /\ UNCHANGED <<children, parent, destroyed, pre, call, err, ret, log, updatePostOrder,
                       updateOrder, displayOrder, displayCounter, events, boundsVars>>

\* n.renderWebGL(renderer), called by the renderer on the object it is given
RenderWebGL ==
    \E n \in SceneNodes :
        LET r == renderWebGL(Stage, n, {})
        IN /\ call.op = "idle"
           /\ parent[n] = null
           /\ r.displayCounter <= MaxDisplayOrder
           /\ call' = [op |-> "renderWebGL", c |-> n, nodes |-> << >>, ints |-> << >>]
           /\ err' = r.err
           /\ displayOrder' = r.displayOrder
           /\ displayCounter' = r.displayCounter
           /\ events' = r.events
           /\ UNCHANGED <<children, parent, destroyed, pre, ret, log, xformVars, flagVars, boundsVars>>

\* n.renderCanvas(renderer)
RenderCanvas ==
    \E n \in SceneNodes :
        LET r == renderCanvas(Stage, n, {})
        IN /\ call.op = "idle"
           /\ parent[n] = null
           /\ call' = [op |-> "renderCanvas", c |-> n, nodes |-> << >>, ints |-> << >>]
           /\ err' = r.err
           /\ events' = r.events
           /\ UNCHANGED <<children, parent, destroyed, pre, ret, log, xformVars, flagVars,
                          displayOrder, displayCounter, boundsVars>>

\* c.addChild(child) while a scene is put together, before its first frame,
\* as a tree: child is not c and not an ancestor of c.
BuildScene ==
    \E c \in Containers, child \in SceneNodes :
        /\ call.op = "idle"
        /\ displayCounter = 0
        /\ \A k \in 0..NumNodes : Up(c, k) # child
        /\ children' = addChild(Now, c, <<child>>).t.children
        /\ parent' = addChild(Now, c, <<child>>).t.parent
        /\ pre' = [children |-> children', parent |-> parent']
        /\ UNCHANGED <<call, err, ret, log, frameVars>>

NextRender ==
    \/ BuildScene
    \/ Configure
    \/ RenderWebGL
    \/ RenderCanvas
    \/ Return

SpecRender == Init /\ [][NextRender]_vars

\* ---------------------------------------------------------------- bounds queries
\* Infinity, the start value of the minima of _getChildBounds; every
\* coordinate of the model lies strictly between -Infinity and Infinity.
Infinity == 1000000

\* a - b as _getChildBounds needs it: -Infinity - Infinity is -Infinity.
Minus(a, b) == IF a = 0 - Infinity \/ b = Infinity THEN 0 - Infinity ELSE a - b

\* The geometries of the scene: a 10 x 10 one at the origin and a 5 x 5 one
\* at (100, 100).
RectA == Rect(0, 0, 10, 10)
RectB == Rect(100, 100, 5, 5)

\* What a bounds query threads through its recursion: the scene, the caches,
\* the value of the innermost call that returned (out), and err, set when the
\* recursion does not end.
Scene == [children |-> children, visible |-> visible, geometry |-> geometry,
          boundsCache |-> boundsCache, out |-> NoBounds, err |-> FALSE]

\* The rectangle object a cache slot of n refers to, with its fields.
Deref(b, n, slot) ==
    LET c == b.boundsCache[slot][n]
    IN [ref |-> c.ref,
        rect |-> IF c.ref = "bounds" THEN c.own
                 ELSE IF c.ref = "geom" THEN c.geom ELSE EmptyRect]

\* math.Rectangle.prototype.enlarge: rect grown in place to cover other, an
\* EMPTY other leaving it as it is.
enlarge(rect, other) ==
    IF other.ref = "EMPTY" THEN rect
    ELSE LET o == other.rect
             x1 == IF rect.x < o.x THEN rect.x ELSE o.x
             y1 == IF rect.y < o.y THEN rect.y ELSE o.y
             x2 == IF rect.x + rect.width > o.x + o.width
                   THEN rect.x + rect.width ELSE o.x + o.width
             y2 == IF rect.y + rect.height > o.y + o.height
                   THEN rect.y + rect.height ELSE o.y + o.height
         IN Rect(x1, y1, x2 - x1, y2 - y1)

\* The locals of _getChildBounds before its loop.
NoChildSeen == [minX |-> Infinity, minY |-> Infinity,
                maxX |-> 0 - Infinity, maxY |-> 0 - Infinity,
                childVisible |-> FALSE]

\* One round of the loop of _getChildBounds for a child whose bounds count.
Cover(acc, childBounds) ==
    LET childMaxX == childBounds.width + childBounds.x
        childMaxY == childBounds.height + childBounds.y
    IN [minX |-> IF acc.minX < childBounds.x THEN acc.minX ELSE childBounds.x,
        minY |-> IF acc.minY < childBounds.y THEN acc.minY ELSE childBounds.y,
        maxX |-> IF acc.maxX > childMaxX THEN acc.maxX ELSE childMaxX,
        maxY |-> IF acc.maxY > childMaxY THEN acc.maxY ELSE childMaxY,
        childVisible |-> TRUE]

RECURSIVE getBoundsOf(_, _, _, _)
RECURSIVE getChildBoundsOf(_, _, _, _)
RECURSIVE childBoundsLoop(_, _, _, _, _, _)
RECURSIVE childBoundsLoop_CountHidden(_, _, _, _, _, _)

\* The loop with the test of child.visible left out.
childBoundsLoop_CountHidden(b, n, slot, i, acc, stack) ==
    IF b.err \/ i > Len(childrenOf(b.children, n)) THEN [b |-> b, acc |-> acc]
    ELSE LET child == childrenOf(b.children, n)[i]
             b1 == getBoundsOf(b, child, slot, stack)
         IN IF b1.err THEN [b |-> b1, acc |-> acc]
            ELSE IF b1.out.ref = "EMPTY"
                 THEN childBoundsLoop_CountHidden(b1, n, slot, i + 1, acc, stack)
                 ELSE childBoundsLoop_CountHidden(b1, n, slot, i + 1,
                                                  Cover(acc, b1.out.rect), stack)

\* for (i = 0; i < children.length; ++i) of _getChildBounds (slot "current",
\* asking the children getBounds()) and of _getChildComputedBounds (slot
\* "computed", asking them getComputedBounds()), from child i on.
childBoundsLoop(b, n, slot, i, acc, stack) ==
    IF b.err \/ i > Len(childrenOf(b.children, n)) THEN [b |-> b, acc |-> acc]
    ELSE LET child == childrenOf(b.children, n)[i]
             b1 == getBoundsOf(b, child, slot, stack)
         IN IF ~b.visible[child]
            THEN childBoundsLoop(b, n, slot, i + 1, acc, stack)
            ELSE IF b1.err THEN [b |-> b1, acc |-> acc]
                 ELSE IF b1.out.ref = "EMPTY"
                      THEN childBoundsLoop(b1, n, slot, i + 1, acc, stack)
                      ELSE childBoundsLoop(b1, n, slot, i + 1,
                                           Cover(acc, b1.out.rect), stack)

\* n._getChildBounds() and n._getChildComputedBounds(): the rectangle
\* this._bounds (this._computedBounds) is overwritten and returned, or EMPTY
\* is returned when no child counted.
getChildBoundsOf(b, n, slot, stack) ==
    IF Len(childrenOf(b.children, n)) = 0
    THEN [b EXCEPT !.out = [ref |-> "EMPTY", rect |-> EmptyRect]]
    ELSE LET r == childBoundsLoop(b, n, slot, 1, NoChildSeen, stack)
             bounds == Rect(r.acc.minX, r.acc.minY,
                            Minus(r.acc.maxX, r.acc.minX),
                            Minus(r.acc.maxY, r.acc.minY))
             b1 == [r.b EXCEPT !.boundsCache[slot][n].own = bounds]
         IN IF r.b.err THEN r.b
            ELSE IF ~r.acc.childVisible
                 THEN [b1 EXCEPT !.out = [ref |-> "EMPTY", rect |-> EmptyRect]]
                 ELSE [b1 EXCEPT !.out = [ref |-> "bounds", rect |-> bounds]]

\* n.getBounds() (slot "current") and n.getComputedBounds() (slot "computed"),
\* _localBounds unset: the cached rectangle if there is one; otherwise the
\* child bounds, or the geometry's bounds enlarged by them, is cached and
\* returned. A query that comes back to a display object whose query is
\* still running never returns.
getBoundsOf(b, n, slot, stack) ==
    IF b.boundsCache[slot][n].ref # "null" THEN [b EXCEPT !.out = Deref(b, n, slot)]
    ELSE IF n \in stack THEN [b EXCEPT !.err = TRUE]
    ELSE LET b1 == getChildBoundsOf(b, n, slot, stack \cup {n})
             b2 == IF b.geometry[n] = NoGeometry
                   THEN [b1 EXCEPT !.boundsCache[slot][n].ref = b1.out.ref]
                   ELSE [b1 EXCEPT !.boundsCache[slot][n].ref = "geom",
                                   !.boundsCache[slot][n].geom =
                                       enlarge(b.geometry[n][1], b1.out)]
         IN IF b1.err THEN b1 ELSE [b2 EXCEPT !.out = Deref(b2, n, slot)]

getBounds(b, n) == getBoundsOf(b, n, "current", {})
getComputedBounds(b, n) == getBoundsOf(b, n, "computed", {})

\* A scene whose display objects without children carry the 10 x 10
\* geometry, whose first container may carry the 5 x 5 one, and whose last
\* container carries none.
InitBounds ==
    /\ InitNodes
    /\ geometry \in {g \in [Nodes -> {NoGeometry, <<RectA>>, <<RectB>>}] :
                        /\ \A n \in Nodes \ Containers : g[n] = <<RectA>>
                        /\ g[NumNodes - 1] \in {NoGeometry, <<RectB>>}
                        /\ g[NumNodes] = NoGeometry}

\* n.getBounds()
GetBounds ==
    \E n \in SceneNodes :
        LET b == getBounds(Scene, n)
        IN /\ call.op = "idle"
           /\ call' = [op |-> "getBounds", c |-> n, nodes |-> << >>, ints |-> << >>]
           /\ err' = b.err
           /\ boundsCache' = b.boundsCache
           /\ retBounds' = b.out
           /\ UNCHANGED <<children, parent, destroyed, pre, ret, log, xformVars, renderVars, geometry>>

\* n.getComputedBounds()
GetComputedBounds ==
    \E n \in SceneNodes :
        LET b == getComputedBounds(Scene, n)
        IN /\ call.op = "idle"
           /\ call' = [op |-> "getComputedBounds", c |-> n, nodes |-> << >>, ints |-> << >>]
           /\ err' = b.err
           /\ boundsCache' = b.boundsCache
           /\ retBounds' = b.out
           /\ UNCHANGED <<children, parent, destroyed, pre, ret, log, xformVars, renderVars, geometry>>

\* Scenes put together, shown and hidden, and queried in both slots.
NextBounds ==
    \/ BuildScene
    \/ TakeChild
    \/ SetVisible
    \/ GetBounds
    \/ GetComputedBounds
    \/ Return

SpecBounds == InitBounds /\ [][NextBounds]_vars

\* Scenes whose child lists change between transform passes and queries.
NextMemo ==
    \/ BuildScene
    \/ TakeChild
    \/ UpdateTransform
    \/ GetBounds
    \/ Return

SpecMemo == InitBounds /\ [][NextMemo]_vars

\* ---------------------------------------------------------------- local bounds
\* What getLocalBounds reads and writes: the fields of a transform pass and
\* those of a bounds query.
Measure == [children |-> children, parent |-> parent, visible |-> visible,
            updatePostOrder |-> updatePostOrder, updateOrder |-> updateOrder,
            geometry |-> geometry, boundsCache |-> boundsCache,
            out |-> NoBounds, err |-> FALSE]

\* return this._currentBounds, m3 being the scene after the assignment.
returnLocal(m3, n) == [m3 EXCEPT !.out = Deref(m3, n, "current")]

\* The assignment to _currentBounds in getLocalBounds, m2 being the scene
\* after this._getChildBounds(): the child bounds, or the bounds of
\* this.geometry enlarged by them. The model has no coordinates other than
\* those of the geometries, so the bounds of this.geometry are those of the
\* projected geometry.
assignLocal(m2, n) ==
    IF m2.err THEN m2
    ELSE IF m2.geometry[n] = NoGeometry
         THEN returnLocal([m2 EXCEPT !.boundsCache["current"][n].ref = m2.out.ref], n)
         ELSE returnLocal([m2 EXCEPT !.boundsCache["current"][n].ref = "geom",
                                     !.boundsCache["current"][n].geom =
                                         enlarge(m2.geometry[n][1], m2.out)], n)

\* The second half of getLocalBounds, m1 being the scene after the loop over
\* the children.
measureLocal(m1, n) ==
    IF m1.err THEN m1 ELSE assignLocal(getChildBoundsOf(m1, n, "current", {n}), n)

\* n.getLocalBounds(), _localBounds unset: updateTransform(ID) of every
\* child, then the measuring above.
getLocalBounds(m, n) == measureLocal(updateChildren(m, n, 1, {n}), n)

\* n.getLocalBounds()
GetLocalBounds ==
    \E n \in SceneNodes :
        \E m \in {getLocalBounds(Measure, n)} :
           /\ call.op = "idle"
           /\ m.updateOrder <= MaxUpdateOrder
           /\ call' = [op |-> "getLocalBounds", c |-> n, nodes |-> << >>, ints |-> << >>]
           /\ err' = m.err
           /\ updatePostOrder' = m.updatePostOrder
           /\ updateOrder' = m.updateOrder
           /\ boundsCache' = m.boundsCache
           /\ retBounds' = m.out
           /\ UNCHANGED <<children, parent, destroyed, pre, ret, log, visible, renderVars,
                          geometry>>

\* Scenes whose child lists change between world and local bounds queries.
NextLocal ==
    \/ BuildScene
    \/ TakeChild
    \/ GetBounds
    \/ GetLocalBounds
    \/ Return

SpecLocal == InitBounds /\ [][NextLocal]_vars

\* ---------------------------------------------------------------- destroy
\* The options arguments of destroy: none, a boolean, an object with and
\* without the children option.
Options == {"undefined", "false", "true", "{}", "{children: true}"}

\* typeof options === 'boolean' ? options : options && options.children
destroyChildren(options) == options \in {"true", "{children: true}"}

\* What destroy threads through its recursion: the tree with the
\* notifications fired, the display objects destroyed, and err, set when a
\* call throws or the recursion does not end.
Teardown == [t |-> Now, destroyed |-> destroyed, err |-> FALSE]

\* DisplayObject.prototype.destroy.call(n): the child lists and the parent of
\* n's children are not its business.
displayObjectDestroy(s, n) == s

RECURSIVE destroy(_, _, _, _)
RECURSIVE destroyChildrenLoop(_, _, _, _, _, _)
RECURSIVE destroyChildrenLoop_KeepAll(_, _, _, _, _, _)
RECURSIVE destroy_KeepChildren(_, _, _, _)

\* The loop of the variant below.
destroyChildrenLoop_KeepAll(s, n, i, j, options, stack) ==
    IF s.err \/ i > j THEN s
    ELSE IF i > Len(s.t.children[n]) THEN [s EXCEPT !.err = TRUE]
         ELSE destroyChildrenLoop_KeepAll(
                  destroy_KeepChildren(s, s.t.children[n][i], options, stack),
                  n, i + 1, j, options, stack)

\* destroy without this.removeChildren(): the children stay in the list.
destroy_KeepChildren(s, n, options, stack) ==
    IF n \in stack THEN [s EXCEPT !.err = TRUE]
    ELSE IF n \notin Containers THEN [s EXCEPT !.destroyed = @ \cup {n}]
    ELSE IF n \in s.destroyed THEN [s EXCEPT !.err = TRUE]
    ELSE LET s1 == displayObjectDestroy(s, n)
             s2 == IF destroyChildren(options)
                   THEN destroyChildrenLoop_KeepAll(s1, n, 1, Len(s1.t.children[n]),
                                                    options, stack \cup {n})
                   ELSE s1
         IN IF s2.err THEN s2 ELSE [s2 EXCEPT !.destroyed = @ \cup {n}]

\* for (i = 0, j = this.children.length; i < j; ++i)
\*     this.children[i].destroy(options), from child i on.
destroyChildrenLoop(s, n, i, j, options, stack) ==
    IF s.err \/ i > j THEN s
    ELSE IF i > Len(s.t.children[n]) THEN [s EXCEPT !.err = TRUE]
         ELSE destroyChildrenLoop(destroy(s, s.t.children[n][i], options, stack),
                                  n, i + 1, j, options, stack)

\* n.destroy(options). A display object without children has only the
\* DisplayObject part. A container whose children is null already throws at
\* this.children.length; one that is reached again while its destroy is
\* still running never returns.
destroy(s, n, options, stack) ==
    IF n \in stack THEN [s EXCEPT !.err = TRUE]
    ELSE IF n \notin Containers THEN [s EXCEPT !.destroyed = @ \cup {n}]
    ELSE IF n \in s.destroyed THEN [s EXCEPT !.err = TRUE]
    ELSE LET s1 == displayObjectDestroy(s, n)
             s2 == IF destroyChildren(options)
                   THEN destroyChildrenLoop(s1, n, 1, Len(s1.t.children[n]),
                                            options, stack \cup {n})
                   ELSE s1
             r == removeChildren(s2.t, n, undefined, undefined)
         IN IF s2.err THEN s2
            ELSE IF r.err THEN [s2 EXCEPT !.t = r.t, !.err = TRUE]
                 ELSE [s2 EXCEPT !.t = r.t, !.destroyed = @ \cup {n}]

\* c.addChild(child) between display objects that have not been destroyed,
\* as a tree: child is not c and not an ancestor of c.
AddLive ==
    \E c \in Containers, child \in Nodes :
        /\ call.op = "idle"
        /\ c \notin destroyed
        /\ child \notin destroyed
        /\ \A k \in 0..NumNodes : Up(c, k) # child
        /\ children' = addChild(Now, c, <<child>>).t.children
        /\ parent' = addChild(Now, c, <<child>>).t.parent
        /\ pre' = [children |-> children', parent |-> parent']
        /\ UNCHANGED <<call, err, ret, log, frameVars>>

\* c.destroy(options) on a container that is nobody's child.
Destroy ==
    \E c \in Containers, options \in Options :
        LET s == destroy(Teardown, c, options, {})
        IN /\ call.op = "idle"
           /\ c \notin destroyed
           /\ parent[c] = null
           /\ pre' = [children |-> children, parent |-> parent]
           /\ call' = [op |-> "destroy", c |-> c, nodes |-> << >>,
                       ints |-> IF destroyChildren(options) THEN <<1>> ELSE <<0>>]
           /\ children' = s.t.children
           /\ parent' = s.t.parent
           /\ log' = s.t.log
           /\ err' = s.err
           /\ destroyed' = s.destroyed
           /\ UNCHANGED <<ret, xformVars, renderVars, boundsVars>>

NextDestroy ==
    \/ AddLive
    \/ Destroy
    \/ Return

SpecDestroy == Init /\ [][NextDestroy]_vars

\* ---------------------------------------------------------------- properties
Has(arr, x) == \E i \in 1..Len(arr) : arr[i] = x
Without(arr, x) == SelectSeq(arr, LAMBDA y : y # x)
Elems(arr) == {arr[i] : i \in 1..Len(arr)}
\* The call recorded in the state: whether it changed the tree, whether it had
\* one node argument, the receiver's list before and after it.
TreeUnchanged == children = pre.children /\ parent = pre.parent
Single == Len(call.nodes) = 1
Before == pre.children[call.c]
After == children[call.c]
\* Every tree the program reaches is the tree of an idle state (Init, or the
\* state after Return): a conjunct guarded by call.op = "idle" and quantified
\* over the arguments is a statement about every call from every reachable tree.

\* C1: every node has at most one parent, no node occurs twice in one child
\* list or in two containers' child lists, and n is an element of c.children
\* if and only if n.parent = c.
C1_SingleParent ==
    /\ \A n \in Nodes : parent[n] \in Containers \cup {null}
    /\ \A c \in Containers :
          \A i, j \in 1..Len(children[c]) : children[c][i] = children[c][j] => i = j
    /\ \A c, d \in Containers :
          c # d => Elems(children[c]) \cap Elems(children[d]) = {}
    /\ \A c \in Containers, n \in Nodes : Has(children[c], n) <=> parent[n] = c

\* C1 witness: addChild has moved a child from the other container to the receiver.
C1_Witness ==
    /\ call.op = "addChild" /\ Single
    /\ pre.parent[call.nodes[1]] \notin {null, call.c}
    /\ parent[call.nodes[1]] = call.c

\* C2: no node is its own ancestor: following parent references from any node
\* reaches a node with no parent without revisiting a node.
C2_NoCycle ==
    \A n \in Nodes : \A k \in 1..NumNodes : Up(n, k) # n

\* C3: addChild places the child at the last index (adding A, B, C to an empty
\* container gives indices 0, 1, 2); removeChild and removeChildAt of one child
\* leave the remaining children in their previous order, the indices after the
\* vacated one shifted down by one.
C3_OrderPreserved ==
    /\ call.op = "addChild" =>
          /\ ~err
          /\ After # << >>
          /\ After[Len(After)] = call.nodes[Len(call.nodes)]
          /\ Single => After = Without(Before, call.nodes[1]) \o <<call.nodes[1]>>
    /\ \A c \in Containers : \A a, b, d \in Nodes :
          (call.op = "idle" /\ children[c] = << >> /\ a # b /\ a # d /\ b # d) =>
             LET t1 == addChild(Now, c, <<a>>).t
                 t2 == addChild(t1, c, <<b>>).t
                 t3 == addChild(t2, c, <<d>>).t
             IN /\ getChildIndex(t3, c, a).ret = RetNumber(0)
                /\ getChildIndex(t3, c, b).ret = RetNumber(1)
                /\ getChildIndex(t3, c, d).ret = RetNumber(2)
    /\ (call.op = "removeChild" /\ Single /\ Has(Before, call.nodes[1])) \/
       (call.op = "removeChildAt" /\ ~err) =>
          LET k == IF call.op = "removeChild"
                   THEN indexOf(Before, call.nodes[1])
                   ELSE call.ints[1][1]
          IN /\ ~err
             /\ Len(After) = Len(Before) - 1
             /\ \A i \in 0..(Len(After) - 1) :
                   After[i + 1] = IF i < k THEN Before[i + 1] ELSE Before[i + 2]

\* C3 witness: removeChild has taken the middle child out of a list of three.
C3_Witness ==
    /\ call.op = "removeChild" /\ Single
    /\ Len(Before) = 3
    /\ Before[2] = call.nodes[1]
    /\ After = <<Before[1], Before[3]>>

\* C4: removeChild(child) on a node that is not a child of the receiver raises
\* no error, changes no child list and no parent reference and fires neither
\* the change hook nor a notification; a second removeChild of the same node
\* right after the first is such a no-op.
C4_RemoveNonChildNoop ==
    /\ (call.op = "removeChild" /\ Single /\ ~Has(Before, call.nodes[1])) =>
          ~err /\ TreeUnchanged /\ log = << >>
    /\ call.op = "idle" => \A c \in Containers, n \in Nodes :
          LET r1 == removeChild(Now, c, <<n>>)
              r2 == removeChild(Tree(r1.t.children, r1.t.parent, << >>), c, <<n>>)
          IN /\ ~r1.err /\ ~r2.err
             /\ r2.t.children = r1.t.children
             /\ r2.t.parent = r1.t.parent
             /\ r2.t.log = << >>

\* C4 witness: removeChild was called with a child of the other container.
C4_Witness ==
    /\ call.op = "removeChild" /\ Single
    /\ pre.parent[call.nodes[1]] \notin {null, call.c}
    /\ parent[call.nodes[1]] = pre.parent[call.nodes[1]]
    /\ log = << >>

PreTree == Tree(pre.children, pre.parent, << >>)
OthersUnchanged ==
    /\ parent = pre.parent
    /\ \A d \in Containers : d # call.c => children[d] = pre.children[d]

\* The parts of C5 that the original claim and the amended claim share:
\* swapChildren(a, b) of two children exchanges exactly their two positions,
\* a second swapChildren(a, b) restores the order, and swapChildren(a, a)
\* changes nothing and fires no change hook.
SwapSymmetry ==
    /\ call.op = "swapChildren" =>
          LET a == call.nodes[1]
              b == call.nodes[2]
          IN /\ (a # b /\ Has(Before, a) /\ Has(Before, b)) =>
                   /\ ~err
                   /\ OthersUnchanged
                   /\ Len(After) = Len(Before)
                   /\ \A i \in 1..Len(Before) :
                         After[i] = IF Before[i] = a THEN b
                                    ELSE IF Before[i] = b THEN a
                                    ELSE Before[i]
             /\ a = b => TreeUnchanged /\ log = << >> /\ ~err
    /\ call.op = "idle" => \A c \in Containers, a, b \in Nodes :
          (Has(children[c], a) /\ Has(children[c], b)) =>
             LET r1 == swapChildren(Now, c, a, b)
                 r2 == swapChildren(r1.t, c, a, b)
             IN ~r1.err /\ ~r2.err /\ r2.t.children = children /\ r2.t.parent = parent

\* C5 as stated: swap symmetry, and swapChildren fails if either argument is
\* not a child of the receiver.
C5_Original ==
    /\ SwapSymmetry
    /\ call.op = "swapChildren" =>
          ((~Has(Before, call.nodes[1]) \/ ~Has(Before, call.nodes[2])) => err)

\* C5 amended: swap symmetry, and swapChildren fails if the two arguments are
\* distinct and either is not a child of the receiver; swapChildren(a, a)
\* returns without error even when a is not a child.
C5_SwapSymmetry ==
    /\ SwapSymmetry
    /\ call.op = "swapChildren" =>
          LET a == call.nodes[1]
              b == call.nodes[2]
          IN /\ (a # b /\ (~Has(Before, a) \/ ~Has(Before, b))) => err
             /\ a = b => ~err

\* C5 witness: swapChildren has exchanged two children that are not neighbours.
C5_Witness ==
    /\ call.op = "swapChildren" /\ ~err
    /\ Len(Before) = 3
    /\ call.nodes = <<Before[1], Before[3]>>
    /\ After = <<Before[3], Before[2], Before[1]>>

\* removeChildren was called with two explicit numbers, begin and end.
Explicit == call.op = "removeChildren" /\ call.ints[1] # undefined /\ call.ints[2] # undefined
Begin == call.ints[1][1]
End == call.ints[2][1]

\* C6 as stated: removeChildren(begin, begin) with begin in [0, length] raises
\* no error, removes nothing and returns an empty result, on every list.
C6_Original ==
    (Explicit /\ Begin = End /\ Begin >= 0 /\ Begin <= Len(Before)) =>
        ~err /\ TreeUnchanged /\ ret = RetArray(<< >>)

\* C6 amended: removeChildren(begin, begin) with begin in [0, length] raises no
\* error, removes nothing, fires nothing and returns an empty result when the
\* list is empty; on a non-empty list it raises a range error and removes nothing.
C6_ZeroRange ==
    (Explicit /\ Begin = End /\ Begin >= 0 /\ Begin <= Len(Before)) =>
        /\ TreeUnchanged
        /\ log = << >>
        /\ Before = << >> => ~err /\ ret = RetArray(<< >>)
        /\ Before # << >> => err

\* C6 witness: removeChildren(0, 0) was called on a non-empty list and threw.
C6_Witness ==
    /\ Explicit /\ Begin = 0 /\ End = 0
    /\ Before # << >>
    /\ err /\ After = Before

\* C7: removeChildren(begin, end) raises a range error whenever begin > end or
\* either bound lies outside [0, length], and then removes no child. Stated for
\* the non-empty lists, where no such call is the empty range on an empty list.
C7_RangeError ==
    (Explicit /\ Before # << >> /\
                 (\/ Begin > End
                  \/ Begin < 0 \/ Begin > Len(Before)
                  \/ End < 0 \/ End > Len(Before))) =>
        err /\ TreeUnchanged

\* C8: a call that fails leaves every children sequence and every parent
\* reference as before the call and fires no hook and no notification.
C8_FailureLeavesTree ==
    err => TreeUnchanged /\ log = << >>

\* C8 witness: addChildAt failed on an out-of-range index with a child that
\* has a parent.
C8_Witness ==
    /\ call.op = "addChildAt" /\ err
    /\ pre.parent[call.nodes[1]] # null
    /\ call.ints[1][1] > Len(Before)

\* C9 as stated: addChildAt fails iff index is outside [0, length] at call
\* time; when it succeeds the child is exactly at position index, and
\* index = length behaves as append.
C9_Original ==
    call.op = "addChildAt" =>
        LET child == call.nodes[1]
            index == call.ints[1][1]
        IN /\ err <=> (index < 0 \/ index > Len(Before))
           /\ ~err => index < Len(After) /\ After[index + 1] = child
           /\ (~err /\ index = Len(Before)) =>
                 /\ children = addChild(PreTree, call.c, <<child>>).t.children
                 /\ parent = addChild(PreTree, call.c, <<child>>).t.parent

\* C9 amended: as stated, except that when the child is already a child of the
\* receiver and index = length at call time, the child ends up at the last
\* position, length - 1 (the list is one shorter once the child is detached).
C9_AddChildAt ==
    call.op = "addChildAt" =>
        LET child == call.nodes[1]
            index == call.ints[1][1]
            place == IF Has(Before, child) /\ index = Len(Before) THEN index - 1 ELSE index
        IN /\ err <=> (index < 0 \/ index > Len(Before))
           /\ ~err => /\ place < Len(After) /\ After[place + 1] = child
                      /\ parent[child] = call.c
                      /\ Without(After, child) = Without(Before, child)
           /\ (~err /\ index = Len(Before)) =>
                 /\ children = addChild(PreTree, call.c, <<child>>).t.children
                 /\ parent = addChild(PreTree, call.c, <<child>>).t.parent

\* C9 witness: addChildAt(child, length) succeeded on a child of the receiver,
\* which is now last.
C9_Witness ==
    /\ call.op = "addChildAt" /\ ~err
    /\ Has(Before, call.nodes[1])
    /\ Len(Before) >= 2
    /\ call.ints[1][1] = Len(Before)
    /\ After[Len(Before)] = call.nodes[1]

\* C10: setChildIndex(child, newIndex) fails if newIndex is outside
\* [0, length - 1] or child is not a child of the receiver; otherwise child is
\* at newIndex afterwards, the list has the same length and members, and the
\* other children keep their relative order.
C10_SetChildIndex ==
    call.op = "setChildIndex" =>
        LET child == call.nodes[1]
            index == call.ints[1][1]
        IN /\ err <=> (index < 0 \/ index > Len(Before) - 1 \/ ~Has(Before, child))
           /\ ~err => /\ After[index + 1] = child
                      /\ Len(After) = Len(Before)
                      /\ Elems(After) = Elems(Before)
                      /\ Without(After, child) = Without(Before, child)
                      /\ OthersUnchanged

\* C10 witness: setChildIndex has moved the first of three children to the end.
C10_Witness ==
    /\ call.op = "setChildIndex" /\ ~err
    /\ Len(Before) = 3
    /\ call.nodes[1] = Before[1]
    /\ call.ints[1][1] = 2
    /\ After = <<Before[2], Before[3], Before[1]>>

\* ---------------------------------------------------------------- C17
\* The scene graph as the k-th hook call or notification of the call finds it,
\* and as it was when the one before it fired (before the call, for the first).
SnapAt(k) == [children |-> log[k].children, parent |-> log[k].parent]
SnapBefore(k) == IF k = 1 THEN pre ELSE SnapAt(k - 1)

\* The positions (0-based) whose occupant differs between two lists; a position
\* that exists in only one of them differs.
ChangedAt(a, b) ==
    {i \in 0..(Max(Len(a), Len(b)) - 1) :
        \/ i + 1 > Len(a)
        \/ i + 1 > Len(b)
        \/ a[i + 1] # b[i + 1]}
SetMin(S) == CHOOSE x \in S : \A y \in S : x <= y

StructuralOps ==
    {"addChild", "addChildAt", "swapChildren", "removeChild", "removeChildAt", "removeChildren"}

\* C17: every successful structural mutation (addChild, addChildAt,
\* swapChildren, removeChild, removeChildAt, removeChildren, also with default
\* arguments) changes a child list only with a call of onChildrenChange on its
\* container, the argument of every such call is a defined integer, and it is
\* the lowest index whose occupant the mutation changed.
C17_HookIndex ==
    (call.op \in StructuralOps /\ ~err) =>
        /\ \A c \in Containers :
              children[c] # pre.children[c] =>
                  \E k \in 1..Len(log) : log[k].ev = "change" /\ log[k].c = c
        /\ \A k \in 1..Len(log) :
              log[k].ev = "change" =>
                  LET a == SnapBefore(k).children[log[k].c]
                      b == SnapAt(k).children[log[k].c]
                  IN /\ log[k].index # undefined
                     /\ a # b => log[k].index = Num(SetMin(ChangedAt(a, b)))

\* ---------------------------------------------------------------- C18
\* C18: removeChildren is two-phase. When a 'removed' notification of the call
\* fires, every node the call removes already has parent null and is out of
\* the container's children; the change hook is called at most once, and when
\* nodes are removed it is the first entry, fired with all of them detached,
\* followed by one notification per removed node in list order.
C18_TwoPhase ==
    (call.op = "removeChildren" /\ ~err) =>
        LET removed == ret.val
            Detached(k) ==
                \A i \in 1..Len(removed) :
                    /\ log[k].parent[removed[i]] = null
                    /\ ~Has(log[k].children[call.c], removed[i])
        IN /\ \A k \in 1..Len(log) : log[k].ev = "removed" => Detached(k)
           /\ Cardinality({k \in 1..Len(log) : log[k].ev = "change"}) <= 1
           /\ removed # << >> =>
                 /\ Len(log) = Len(removed) + 1
                 /\ log[1].ev = "change" /\ log[1].c = call.c /\ Detached(1)
                 /\ \A i \in 1..Len(removed) :
                       /\ log[i + 1].ev = "removed"
                       /\ log[i + 1].n = removed[i]
                       /\ log[i + 1].c = call.c

C18_Witness ==
    /\ call.op = "removeChildren" /\ ~err
    /\ Len(ret.val) >= 2
    /\ Len(log) = Len(ret.val) + 1
    /\ log[2].ev = "removed"

\* ---------------------------------------------------------------- C19
\* How many positions of how many child lists hold node n in a snapshot.
Memberships(snap, n) ==
    Cardinality({p \in Containers \X (1..NumNodes) :
                    /\ p[2] <= Len(snap.children[p[1]])
                    /\ snap.children[p[1]][p[2]] = n})

\* C19: reparenting is detach-then-attach. When addChild or addChildAt is
\* called with a child that has a parent P, the first two entries are P's
\* change hook and the child's 'removed' notification, both fired with the
\* child out of P's list, its parent cleared and the list of the new
\* container not yet touched; no hook or notification finds any node in two
\* lists; an 'added' notification finds the child in the new container's list
\* with that container as its parent.
C19_DetachThenAttach ==
    (call.op \in {"addChild", "addChildAt"} /\ ~err) =>
        /\ \A k \in 1..Len(log) :
              /\ \A n \in Nodes : Memberships(SnapAt(k), n) <= 1
              /\ log[k].ev = "added" =>
                    /\ log[k].c = call.c
                    /\ log[k].parent[log[k].n] = call.c
                    /\ Has(log[k].children[call.c], log[k].n)
        /\ (Single /\ pre.parent[call.nodes[1]] # null) =>
              LET child == call.nodes[1]
                  P == pre.parent[child]
                  Detached(k) ==
                      /\ log[k].c = P
                      /\ ~Has(log[k].children[P], child)
                      /\ log[k].parent[child] = null
                      /\ P # call.c => log[k].children[call.c] = Before
              IN /\ Len(log) = 4
                 /\ log[1].ev = "change" /\ Detached(1)
                 /\ log[2].ev = "removed" /\ log[2].n = child /\ Detached(2)
                 /\ log[3].ev = "change" /\ log[3].c = call.c
                 /\ log[4].ev = "added" /\ log[4].n = child

C19_Witness ==
    /\ call.op \in {"addChild", "addChildAt"} /\ ~err /\ Single
    /\ pre.parent[call.nodes[1]] # null
    /\ pre.parent[call.nodes[1]] # call.c
    /\ Before # << >>
    /\ Len(log) = 4 /\ log[4].ev = "added"

\* ---------------------------------------------------------------- C11
\* c is in the tree under root; the pass started at root has visited c (c and
\* every node between c and root is visible).
InTree(root, c) == \E k \in 0..NumNodes : Up(c, k) = root
Visited(root, c) ==
    \E k \in 0..NumNodes :
        /\ Up(c, k) = root
        /\ \A j \in 0..k : visible[Up(c, j)]

\* A pass has returned.
PassDone == call.op = "updateTransform" /\ ~err

\* C11 as stated: after a full updateTransform pass started at the root, every
\* child k of every container c in the tree has k.updatePostOrder <=
\* c.updatePostOrder, also with invisible nodes in the tree and nodes stamped
\* in earlier passes and reparented since.
C11_Original ==
    PassDone =>
        \A c \in Containers :
            InTree(call.c, c) =>
                \A i \in 1..Len(children[c]) :
                    updatePostOrder[children[c][i]] <= updatePostOrder[c]

\* C11 amended: the same for every container the pass has visited.
C11_PostOrder ==
    PassDone =>
        \A c \in Containers :
            Visited(call.c, c) =>
                \A i \in 1..Len(children[c]) :
                    updatePostOrder[children[c][i]] <= updatePostOrder[c]

\* A pass has visited a container with two children, one stamped by this
\* pass and one invisible that still has the stamp of an earlier pass.
C11_Witness ==
    /\ PassDone
    /\ \E c \in Containers :
          /\ Visited(call.c, c)
          /\ updatePostOrder[c] = updateOrder
          /\ \E i, j \in 1..Len(children[c]) :
                /\ visible[children[c][i]]
                /\ updatePostOrder[children[c][i]] = updateOrder - 1
                /\ ~visible[children[c][j]]
                /\ updatePostOrder[children[c][j]] > 0

\* ---------------------------------------------------------------- C12
\* The calls on the renderer made by the visit of node m, in order.
EventsOf(m) == SelectSeq(events, LAMBDA e : e.n = m)
EventNames(evs) == [i \in 1..Len(evs) |-> evs[i].ev]

\* m is k or a descendant of k.
Under(k, m) == \E d \in 0..NumNodes : Up(m, d) = k

\* The gates of renderWebGL: the node is drawn and its children are visited.
PassesWebGL(m) == visible[m] /\ worldAlpha[m] > 0 /\ renderable[m]
FullEffects(m) == mask[m] /\ ~filters[m].isNull /\ filters[m].length > 0
NoEffects(m) == ~mask[m] /\ filters[m].isNull

WebGLDone == call.op = "renderWebGL" /\ ~err

\* C12: a visible, renderable node of non-zero opacity with a mask and a
\* non-empty filter list produces exactly flush, pushFilter, pushMask, start,
\* its own geometry, the renders of its children in child-index order, flush,
\* popMask, popFilter, start; the visit of a node with neither mask nor filters
\* produces no flush, start, push or pop.
C12_EventSequence ==
    WebGLDone =>
        /\ \A m \in SceneNodes :
              (EventsOf(m) # << >> /\ FullEffects(m)) =>
                  EventNames(EventsOf(m)) =
                      <<"flush", "pushFilter", "pushMask", "start", "_renderWebGL",
                        "flush", "popMask", "popFilter", "start">>
        /\ \A m \in SceneNodes :
              NoEffects(m) => \A i \in 1..Len(EventsOf(m)) : EventsOf(m)[i].ev = "_renderWebGL"
        /\ (PassesWebGL(call.c) /\ FullEffects(call.c)) =>
              LET n == call.c
                  kids == childrenOf(children, n)
                  len == Len(events)
                  \* the child of n under which the node of the p-th event is
                  Kid(p) == CHOOSE i \in 1..Len(kids) : Under(kids[i], events[p].n)
              IN /\ len >= 9
                 /\ \A p \in 1..5 : events[p].n = n
                 /\ \A p \in (len - 3)..len : events[p].n = n
                 /\ \A p \in 6..(len - 4) :
                       /\ \E i \in 1..Len(kids) : Under(kids[i], events[p].n)
                       /\ \A q \in 6..(len - 4) : p < q => Kid(p) <= Kid(q)
                 /\ \A i \in 1..Len(kids) :
                       PassesWebGL(kids[i]) <=>
                           \E p \in 6..(len - 4) :
                               events[p] = [ev |-> "_renderWebGL", n |-> kids[i]]

\* A node with a mask, a filter and two children has been rendered, and so
\* have both children.
C12_Witness ==
    /\ WebGLDone
    /\ PassesWebGL(call.c) /\ FullEffects(call.c)
    /\ Len(childrenOf(children, call.c)) = 2
    /\ Len(events) = 11

\* ---------------------------------------------------------------- C16
\* pushes minus pops of node m in the first p calls on the renderer
Depth(m, push, pop, p) ==
    Cardinality({i \in 1..p : events[i].n = m /\ events[i].ev = push})
    - Cardinality({i \in 1..p : events[i].n = m /\ events[i].ev = pop})

\* C16: in a render traversal (renderWebGL or renderCanvas) the pushes and pops
\* of filters and of masks are balanced: a pop of a node visit comes after the
\* push of the same visit, every push gets its pop, and both stacks are back
\* at their initial depth when the traversal returns, whatever the mask
\* (present, absent) and the filters (absent, empty list, non-empty list).
C16_Balanced ==
    (call.op \in {"renderWebGL", "renderCanvas"} /\ ~err) =>
        \A m \in SceneNodes :
            /\ \A p \in 0..Len(events) :
                  /\ Depth(m, "pushFilter", "popFilter", p) \in {0, 1}
                  /\ Depth(m, "pushMask", "popMask", p) \in {0, 1}
            /\ Depth(m, "pushFilter", "popFilter", Len(events)) = 0
            /\ Depth(m, "pushMask", "popMask", Len(events)) = 0

\* ---------------------------------------------------------------- C20
\* The gate of renderCanvas.
PassesCanvas(m) == visible[m] /\ alpha[m] > 0 /\ renderable[m]

\* m is k or a descendant of k, and not k.
StrictlyUnder(k, m) == m # k /\ Under(k, m)

\* C20: render gating. renderWebGL on an invisible node sets its displayOrder
\* to 0, takes no value of the counter and calls nothing on the renderer; on a
\* visible node with worldAlpha <= 0 or renderable false it stamps the node
\* with the next value of the counter and does nothing else; in a pass no
\* node behind such a gate is drawn or stamped. renderCanvas draws nothing of
\* and below a node that is invisible, has alpha <= 0 or is not renderable.
C20_Gating ==
    [][ /\ (call.op = "idle" /\ call'.op = "renderWebGL" /\ ~err') =>
              LET n == call'.c
              IN /\ ~visible[n] =>
                       /\ displayOrder' = [displayOrder EXCEPT ![n] = 0]
                       /\ displayCounter' = displayCounter
                       /\ events' = << >>
                 /\ (visible[n] /\ ~PassesWebGL(n)) =>
                       /\ displayOrder' = [displayOrder EXCEPT ![n] = displayCounter + 1]
                       /\ displayCounter' = displayCounter + 1
                       /\ events' = << >>
                 /\ \A k \in SceneNodes :
                       ~PassesWebGL(k) =>
                           \A m \in SceneNodes :
                               /\ Under(k, m) => \A i \in 1..Len(events') : events'[i].n # m
                               /\ StrictlyUnder(k, m) => displayOrder'[m] = displayOrder[m]
        /\ (call.op = "idle" /\ call'.op = "renderCanvas" /\ ~err') =>
              /\ ~PassesCanvas(call'.c) => events' = << >>
              /\ \A k \in SceneNodes :
                    ~PassesCanvas(k) =>
                        \A m \in SceneNodes :
                            Under(k, m) => \A i \in 1..Len(events') : events'[i].n # m
      ]_vars

\* A node with a child that has been drawn in an earlier frame is invisible in
\* this one: the pass has set its displayOrder to 0 and left the child alone.
C20_Witness ==
    /\ WebGLDone
    /\ ~visible[call.c]
    /\ displayOrder[call.c] = 0
    /\ events = << >>
    /\ \E i \in 1..Len(childrenOf(children, call.c)) :
          displayOrder[childrenOf(children, call.c)[i]] > 0

\* ---------------------------------------------------------------- C13
\* The children of n whose bounds count in the given slot: the visible ones
\* whose cached bounds are not EMPTY.
Counting(cache, n, slot) ==
    {i \in 1..Len(childrenOf(children, n)) :
        /\ visible[childrenOf(children, n)[i]]
        /\ cache[slot][childrenOf(children, n)[i]].ref # "EMPTY"}

\* The fields of the rectangle that child i of n has cached in the slot.
CachedRect(cache, n, slot, i) ==
    LET c == cache[slot][childrenOf(children, n)[i]]
    IN IF c.ref = "bounds" THEN c.own ELSE c.geom

\* The smallest and the largest member of a non-empty set of integers.
Least(S) == CHOOSE x \in S : \A y \in S : x <= y
Greatest(S) == CHOOSE x \in S : \A y \in S : x >= y

\* The smallest rectangle covering a non-empty set of rectangles.
UnionOf(R) ==
    LET x1 == Least({r.x : r \in R})
        y1 == Least({r.y : r \in R})
        x2 == Greatest({r.x + r.width : r \in R})
        y2 == Greatest({r.y + r.height : r \in R})
    IN Rect(x1, y1, x2 - x1, y2 - y1)

\* The slot a query reads.
SlotOf(op) == IF op = "getBounds" THEN "current" ELSE "computed"

\* C13: when getBounds or getComputedBounds is called on a container without
\* geometry whose cache slot is empty, the result is the union of the bounds
\* of exactly the children that are visible and whose bounds are not EMPTY,
\* and it is the EMPTY singleton itself when there is no such child.
C13_ExcludeInvisible ==
    [][(/\ call.op = "idle"
        /\ call'.op \in {"getBounds", "getComputedBounds"}
        /\ ~err'
        /\ geometry[call'.c] = NoGeometry
        /\ boundsCache[SlotOf(call'.op)][call'.c].ref = "null")
       => LET n == call'.c
              slot == SlotOf(call'.op)
              counting == Counting(boundsCache', n, slot)
          IN IF counting = {}
             THEN retBounds'.ref = "EMPTY"
             ELSE /\ retBounds'.ref = "bounds"
                  /\ retBounds'.rect =
                         UnionOf({CachedRect(boundsCache', n, slot, i) : i \in counting})
                  /\ \A i \in 1..Len(childrenOf(children, n)) :
                         visible[childrenOf(children, n)[i]]
                             => boundsCache'[slot][childrenOf(children, n)[i]].ref # "null"
      ]_vars

\* A container without geometry has just answered a query with the 10 x 10
\* rectangle of its visible child while its other child, hidden, carries
\* the 5 x 5 geometry at (100, 100).
C13_Witness ==
    /\ call.op \in {"getBounds", "getComputedBounds"}
    /\ ~err
    /\ geometry[call.c] = NoGeometry
    /\ Len(childrenOf(children, call.c)) = 2
    /\ \E i, j \in 1..2 :
          /\ visible[childrenOf(children, call.c)[i]]
          /\ geometry[childrenOf(children, call.c)[i]] = <<RectA>>
          /\ ~visible[childrenOf(children, call.c)[j]]
          /\ geometry[childrenOf(children, call.c)[j]] = <<RectB>>
    /\ retBounds = [ref |-> "bounds", rect |-> RectA]

\* ---------------------------------------------------------------- C14
\* The bounds of the geometries of the children of n that carry one.
ChildGeometryBounds(n) ==
    {geometry[childrenOf(children, n)[i]][1] :
        i \in {k \in 1..Len(childrenOf(children, n)) :
                  geometry[childrenOf(children, n)[k]] # NoGeometry}}

\* What n.getBounds() has to return for a container n without geometry whose
\* children are all visible and have no children themselves.
FreshBounds(n) ==
    IF ChildGeometryBounds(n) = {}
    THEN [ref |-> "EMPTY", rect |-> EmptyRect]
    ELSE [ref |-> "bounds", rect |-> UnionOf(ChildGeometryBounds(n))]

\* C14: once a transform pass has visited container A, A.getBounds() returns
\* the bounds of A's present child list, whatever addChild and removeChild did
\* to the list since the pass and since the last query: the union of the
\* children's bounds, and the EMPTY rectangle when the only child that had
\* content was removed. Stated for a container without geometry whose
\* children are visible and childless.
C14_MemoFollowsChildren ==
    (/\ call.op = "getBounds"
     /\ ~err
     /\ updatePostOrder[call.c] > 0
     /\ geometry[call.c] = NoGeometry
     /\ \A i \in 1..Len(childrenOf(children, call.c)) :
           /\ visible[childrenOf(children, call.c)[i]]
           /\ childrenOf(children, childrenOf(children, call.c)[i]) = << >>)
    => retBounds = FreshBounds(call.c)

\* ---------------------------------------------------------------- C15
\* The 'removed' notifications a call fired for child leaving container c.
RemovedEvents(child, c) ==
    {k \in 1..Len(log) : log[k].ev = "removed" /\ log[k].n = child /\ log[k].c = c}

SceneAfter == [children |-> children', visible |-> visible', geometry |-> geometry',
               boundsCache |-> boundsCache', out |-> NoBounds, err |-> FALSE]

\* C21: getLocalBounds has no effect on getBounds: what getBounds on the
\* same container returns right after a getLocalBounds call is what it
\* would have returned right before the call.
C21_LocalLeavesWorld ==
    [][(call.op = "idle" /\ call'.op = "getLocalBounds" /\ ~err')
       => getBounds(SceneAfter, call'.c).out = getBounds(Scene, call'.c).out]_vars

====
